---- MODULE Spec2Model ----
(***************************************************************************)
(* Model of boa_extract_grants_xml.py: extraction of {recipient, amount}   *)
(* rows from the grant groups of a Form 990 XML document.                  *)
(*                                                                         *)
(* Text is a sequence of one-character tokens ("NBSP" stands for U+00A0,   *)
(* "TAB" for U+0009).  An optional value (Python's None or a value) is a   *)
(* sequence of length 0 or 1: None == <<>>, Some(v) == <<v>>.              *)
(***************************************************************************)
EXTENDS Integers, Sequences, FiniteSets, TLC

VARIABLES doc, debug, pc, grant_nodes, i, name, amount_raw, amt_val,
          results, stdout, stderr, exit_code, out_file, prev_run

vars == <<doc, debug, pc, grant_nodes, i, name, amount_raw, amt_val,
          results, stdout, stderr, exit_code, out_file, prev_run>>

(***************************************************************************)
(* Bounds of the model.                                                    *)
(***************************************************************************)
MaxLen == 3
MaxGroups == 2
MaxElems == 2

(***************************************************************************)
(* Optional values and characters.                                         *)
(***************************************************************************)
None == <<>>

Some(v) == <<v>>

Digits == {"0", "1", "2", "3", "4", "5", "6", "7", "8", "9"}

Upper == <<"A", "B", "C", "D", "E", "F", "G", "H", "I", "J", "K", "L", "M",
           "N", "O", "P", "Q", "R", "S", "T", "U", "V", "W", "X", "Y", "Z">>

Lower == <<"a", "b", "c", "d", "e", "f", "g", "h", "i", "j", "k", "l", "m",
           "n", "o", "p", "q", "r", "s", "t", "u", "v", "w", "x", "y", "z">>

IsSpace(c) == c \in {" ", "TAB", "LF", "NBSP"}

LowerChar(c) ==
    IF \E k \in 1..26 : Upper[k] = c
    THEN Lower[CHOOSE k \in 1..26 : Upper[k] = c]
    ELSE c

ToLower(s) == [k \in 1..Len(s) |-> LowerChar(s[k])]

Min(S) == CHOOSE x \in S : \A y \in S : x <= y

Max(S) == CHOOSE x \in S : \A y \in S : x >= y

\* s.strip()
Strip(s) ==
    LET kept == {k \in 1..Len(s) : ~IsSpace(s[k])}
    IN  IF kept = {} THEN <<>> ELSE SubSeq(s, Min(kept), Max(kept))

\* s.replace(old, "")
Remove(s, old) == SelectSeq(s, LAMBDA c : c # old)

\* s.replace(old, new), new one character
Replace(s, old, new) == [k \in 1..Len(s) |-> IF s[k] = old THEN new ELSE s[k]]

Contains(s, sub) ==
    \E k \in 0..(Len(s) - Len(sub)) : SubSeq(s, k + 1, k + Len(sub)) = sub

Count(s, c) == Cardinality({k \in 1..Len(s) : s[k] = c})

(***************************************************************************)
(* float(): the string reaching it holds only digits, periods and minus    *)
(* signs.  A finite double is written as the decimal it was read from      *)
(* (sign, integer digits without leading zeros, fraction digits without    *)
(* trailing zeros); a magnitude of at least 2^1024 - 2^970 reads as an     *)
(* infinity.                                                               *)
(***************************************************************************)
DBL_OVERFLOW ==
    <<"1","7","9","7","6","9","3","1","3","4","8","6","2","3","1","5","8","0",
      "7","9","3","7","2","8","9","7","1","4","0","5","3","0","3","4","1","5",
      "0","7","9","9","3","4","1","3","2","7","1","0","0","3","7","8","2","6",
      "9","3","6","1","7","3","7","7","8","9","8","0","4","4","4","9","6","8",
      "2","9","2","7","6","4","7","5","0","9","4","6","6","4","9","0","1","7",
      "9","7","7","5","8","7","2","0","7","0","9","6","3","3","0","2","8","6",
      "4","1","6","6","9","2","8","8","7","9","1","0","9","4","6","5","5","5",
      "5","4","7","8","5","1","9","4","0","4","0","2","6","3","0","6","5","7",
      "4","8","8","6","7","1","5","0","5","8","2","0","6","8","1","9","0","8",
      "9","0","2","0","0","0","7","0","8","3","8","3","6","7","6","2","7","3",
      "8","5","4","8","4","5","8","1","7","7","1","1","5","3","1","7","6","4",
      "4","7","5","7","3","0","2","7","0","0","6","9","8","5","5","5","7","1",
      "3","6","6","9","5","9","6","2","2","8","4","2","9","1","4","8","1","9",
      "8","6","0","8","3","4","9","3","6","4","7","5","2","9","2","7","1","9",
      "0","7","4","1","6","8","4","4","4","3","6","5","5","1","0","7","0","4",
      "3","4","2","7","1","1","5","5","9","6","9","9","5","0","8","0","9","3",
      "0","4","2","8","8","0","1","7","7","9","0","4","1","7","4","4","9","7",
      "7","9","2">>

DigitSeq == <<"0", "1", "2", "3", "4", "5", "6", "7", "8", "9">>

DigitVal(c) == CHOOSE n \in 1..10 : DigitSeq[n] = c

NonZero(s) == {k \in 1..Len(s) : s[k] # "0"}

StripLeadingZeros(s) ==
    IF NonZero(s) = {} THEN <<>> ELSE SubSeq(s, Min(NonZero(s)), Len(s))

StripTrailingZeros(s) ==
    IF NonZero(s) = {} THEN <<>> ELSE SubSeq(s, 1, Max(NonZero(s)))

\* a >= b for digit strings without leading zeros
DigitsGeq(a, b) ==
    IF Len(a) # Len(b) THEN Len(a) > Len(b)
    ELSE LET diff == {k \in 1..Len(a) : a[k] # b[k]}
         IN  IF diff = {} THEN TRUE
             ELSE DigitVal(a[Min(diff)]) > DigitVal(b[Min(diff)])

IsNumeral(b) ==
    /\ \A k \in 1..Len(b) : b[k] \in Digits \cup {"."}
    /\ Count(b, ".") <= 1
    /\ \E k \in 1..Len(b) : b[k] \in Digits

Double(neg, intDigits, fracDigits) ==
    LET ip == StripLeadingZeros(intDigits)
        fp == StripTrailingZeros(fracDigits)
    IN  IF DigitsGeq(ip, DBL_OVERFLOW)
        THEN [kind |-> "inf", neg |-> neg]
        ELSE [kind |-> "finite", neg |-> neg, ip |-> ip, fp |-> fp]

\* float(s): None stands for ValueError
PyFloat(s) ==
    LET neg  == s # <<>> /\ Head(s) = "-"
        body == IF neg THEN Tail(s) ELSE s
        dot  == IF Count(body, ".") = 1
                THEN CHOOSE k \in 1..Len(body) : body[k] = "."
                ELSE Len(body) + 1
    IN  IF ~IsNumeral(body) THEN None
        ELSE Some(Double(neg, SubSeq(body, 1, dot - 1),
                         SubSeq(body, dot + 1, Len(body))))

\* [^0-9\.]
AMOUNT_CLEAN_RE_NoMinus(c) == c \notin (Digits \cup {"."})

AMOUNT_CLEAN_RE(c) == c \notin (Digits \cup {".", "-"})

ReSub(s) == SelectSeq(s, LAMBDA c : ~AMOUNT_CLEAN_RE(c))

\* both parentheses dropped
clean_amount_parens_dropped(s) ==
    IF s = None THEN None
    ELSE LET s5 == ReSub(Remove(Remove(Strip(s[1]), "("), ")"))
         IN  IF s5 = <<>> THEN None ELSE PyFloat(s5)

\* clean_amount_to_float(s): s is None or Some(text)
clean_amount_to_float(s) ==
    IF s = None THEN None
    ELSE LET s1 == Strip(s[1])
             s2 == Remove(s1, "NBSP")
             s3 == Remove(s2, ",")
             s4 == Remove(Replace(s3, "(", "-"), ")")
             s5 == ReSub(s4)
         IN  IF s5 = <<>> THEN None ELSE PyFloat(s5)

(***************************************************************************)
(* Element local names, as text.                                           *)
(***************************************************************************)

T_BusinessNameLine1Txt ==
    <<"B", "u", "s", "i", "n", "e", "s", "s", "N", "a", "m", "e", "L", "i",
      "n", "e", "1", "T", "x", "t">>

T_BusinessNameLine1 ==
    <<"B", "u", "s", "i", "n", "e", "s", "s", "N", "a", "m", "e", "L", "i",
      "n", "e", "1">>

T_BusinessName ==
    <<"B", "u", "s", "i", "n", "e", "s", "s", "N", "a", "m", "e">>

T_RecipientBusinessName ==
    <<"R", "e", "c", "i", "p", "i", "e", "n", "t", "B", "u", "s", "i", "n",
      "e", "s", "s", "N", "a", "m", "e">>

T_Amt == <<"A", "m", "t">>

T_Amount == <<"A", "m", "o", "u", "n", "t">>

T_GrantAmount == <<"G", "r", "a", "n", "t", "A", "m", "o", "u", "n", "t">>

T_ContributionAmt ==
    <<"C", "o", "n", "t", "r", "i", "b", "u", "t", "i", "o", "n", "A", "m",
      "t">>

T_ContributionAmount ==
    <<"C", "o", "n", "t", "r", "i", "b", "u", "t", "i", "o", "n", "A", "m",
      "o", "u", "n", "t">>

GRANT_GROUP ==
    <<"G", "r", "a", "n", "t", "O", "r", "C", "o", "n", "t", "r", "i", "b",
      "u", "t", "i", "o", "n", "P", "d", "D", "u", "r", "Y", "r", "G", "r",
      "p">>

T_GrantGrp == <<"G", "r", "a", "n", "t", "G", "r", "p">>

T_Return == <<"R", "e", "t", "u", "r", "n">>

T_Desc == <<"D", "e", "s", "c">>

GRANT == <<"g", "r", "a", "n", "t">>

TOTAL == <<"t", "o", "t", "a", "l">>

NAME_TAG_CANDIDATES ==
    <<T_BusinessNameLine1Txt, T_BusinessNameLine1, T_BusinessName,
      T_RecipientBusinessName>>

AMOUNT_TAG_CANDIDATES ==
    <<T_Amt, T_Amount, T_GrantAmount, T_ContributionAmt, T_ContributionAmount>>

(***************************************************************************)
(* A parsed document is the sequence of its elements in document order.    *)
(* An element has a namespace, a local name, a nesting depth (the root has *)
(* depth 0), its text and its tail (the text after its end tag).           *)
(***************************************************************************)
Elem(ns, nm, depth, text, tail) ==
    [ns |-> ns, name |-> nm, depth |-> depth, text |-> text, tail |-> tail]

LocalName(e) == e.name

SubtreeEnd(d, n) ==
    LET Scan[k \in n..Len(d)] ==
            IF k < Len(d) /\ d[k + 1].depth > d[n].depth THEN Scan[k + 1] ELSE k
    IN  Scan[n]

\* indices of a set of element positions, in document order
RECURSIVE InOrder(_, _, _)
InOrder(lo, hi, S) ==
    IF lo > hi THEN <<>>
    ELSE (IF lo \in S THEN <<lo>> ELSE <<>>) \o InOrder(lo + 1, hi, S)

\* node.xpath("//*[local-name() = $t]", t=tag)
XPathDescendants_WholeDoc(d, node, tag) ==
    InOrder(1, Len(d), {k \in 1..Len(d) : LocalName(d[k]) = tag})

\* node.xpath(".//*[local-name() = $t]", t=tag)
XPathDescendants(d, node, tag) ==
    InOrder(node + 1, SubtreeEnd(d, node), {k \in 1..Len(d) : LocalName(d[k]) = tag})

\* root.xpath("*[local-name() = 'GrantOrContributionPdDurYrGrp']")
XPathExact_ChildrenOfRoot(d) ==
    InOrder(1, Len(d),
            {k \in 1..Len(d) : LocalName(d[k]) = GRANT_GROUP /\ d[k].depth = 1})

\* root.xpath("//*[local-name() = 'GrantOrContributionPdDurYrGrp']")
XPathExact(d) ==
    InOrder(1, Len(d), {k \in 1..Len(d) : LocalName(d[k]) = GRANT_GROUP})

\* root.xpath("//*[contains(translate(local-name(), 'A..Z', 'a..z'), 'grant')]")
XPathGrantLike(d) ==
    InOrder(1, Len(d),
            {k \in 1..Len(d) : Contains(ToLower(LocalName(d[k])), GRANT)})

\* ''.join(e.itertext()) for the elements lo..hi below an element
RECURSIVE IterForest(_, _, _)
IterForest(d, lo, hi) ==
    IF lo > hi THEN <<>>
    ELSE LET e == SubtreeEnd(d, lo)
         IN  d[lo].text \o IterForest(d, lo + 1, e) \o d[lo].tail
                        \o IterForest(d, e + 1, hi)

IterText(d, n) == d[n].text \o IterForest(d, n + 1, SubtreeEnd(d, n))

RECURSIVE FirstNonEmpty(_, _)
FirstNonEmpty(d, elems) ==
    IF elems = <<>> THEN None
    ELSE LET text == Strip(IterText(d, Head(elems)))
         IN  IF text # <<>> THEN Some(text) ELSE FirstNonEmpty(d, Tail(elems))

\* the first non-empty element of any candidate tag, by position
first_text_by_position(d, node, tag_names) ==
    FirstNonEmpty(d, InOrder(node + 1, SubtreeEnd(d, node),
        {k \in 1..Len(d) :
            \E t \in 1..Len(tag_names) : LocalName(d[k]) = tag_names[t]}))

RECURSIVE first_text_for_tags(_, _, _)
first_text_for_tags(d, node, tag_names) ==
    IF tag_names = <<>> THEN None
    ELSE LET found == FirstNonEmpty(d, XPathDescendants(d, node, Head(tag_names)))
         IN  IF found # None THEN found
             ELSE first_text_for_tags(d, node, Tail(tag_names))

\* the fallback taken whenever debug is set
LocateGroups_FallbackWhenDebug(d, dbg) ==
    IF dbg THEN XPathGrantLike(d) ELSE XPathExact(d)

LocateGroups(d, dbg) ==
    IF XPathExact(d) = <<>> /\ dbg THEN XPathGrantLike(d) ELSE XPathExact(d)

\* "total" in name, without lower()
IsTotal_CaseSensitive(nm) == Contains(nm, TOTAL)

IsTotal(nm) == Contains(ToLower(nm), TOTAL)

(***************************************************************************)
(* Input documents.                                                        *)
(***************************************************************************)
IRS == "http://www.irs.gov/efile"

TxtAcme == <<"A", "c", "m", "e">>

TxtSubTotal == <<"S", "u", "b", " ", "T", "o", "t", "a", "l">>

TxtTotalUpper == <<"T", "O", "T", "A", "L">>

TxtTotalContributions ==
    <<"T", "o", "t", "a", "l", " ", "C", "o", "n", "t", "r", "i", "b", "u", "t", "i", "o", "n", "s">>

Amt500 == <<"$", "5", "0", "0", ".", "0", "0">>

Amt250 == <<"(", "2", "5", "0", ")">>

AmtNA == <<"n", "/", "a">>

AmtHuge == [k \in 1..310 |-> "9"]

RootElem == Elem(IRS, T_Return, 0, <<>>, <<>>)

Field(tag, text) == <<Elem(IRS, tag, 2, text, <<>>)>>

MkGroup(ns, tag, nameField, amtField) ==
    <<Elem(ns, tag, 1, <<"LF">>, <<"LF">>)>> \o nameField \o amtField

NameFieldOpts ==
    {<<>>, Field(T_BusinessNameLine1Txt, TxtAcme), Field(T_BusinessName, TxtSubTotal)}

AmtFieldOpts == {<<>>, Field(T_Amt, Amt500), Field(T_Amount, AmtNA)}

GroupTemplates ==
    {MkGroup(t[1], t[2], nf, af) :
        t \in {<<IRS, GRANT_GROUP>>, <<"", T_GrantGrp>>},
        nf \in NameFieldOpts, af \in AmtFieldOpts}

RECURSIVE Flatten(_)
Flatten(ss) == IF ss = <<>> THEN <<>> ELSE Head(ss) \o Flatten(Tail(ss))

MainDocs ==
    {<<RootElem>> \o Flatten(gs) :
        gs \in UNION {[1..n -> GroupTemplates] : n \in 0..MaxGroups}}

\* one group with elements nested freely below it
FreeElems ==
    {Elem("", nm, dp, tx, <<>>) :
        nm \in {T_BusinessNameLine1Txt, T_BusinessName, T_Amt},
        dp \in {2, 3},
        tx \in {<<" ">>, <<" ", "a">>, <<"5", "NBSP">>}}

WellNested(es) ==
    /\ es # <<>> => es[1].depth = 2
    /\ \A k \in 1..(Len(es) - 1) : es[k + 1].depth <= es[k].depth + 1

ExtractDocs ==
    {<<RootElem, Elem(IRS, GRANT_GROUP, 1, <<>>, <<>>)>> \o es :
        es \in {x \in UNION {[1..n -> FreeElems] : n \in 0..MaxElems} :
                    WellNested(x)}}

\* two valid groups around a group without a name
ExampleDoc ==
    <<RootElem>>
        \o MkGroup(IRS, GRANT_GROUP, Field(T_BusinessNameLine1Txt, TxtAcme),
                   Field(T_Amt, Amt500))
        \o MkGroup(IRS, GRANT_GROUP, <<>>, Field(T_Amt, Amt500))
        \o MkGroup(IRS, GRANT_GROUP, Field(T_BusinessName, TxtAcme),
                   Field(T_Amount, Amt250))

TotalOnlyDoc ==
    <<RootElem>>
        \o MkGroup(IRS, GRANT_GROUP,
                   Field(T_BusinessNameLine1Txt, TxtTotalContributions),
                   Field(T_Amt, Amt500))

TotalUpperDoc ==
    <<RootElem>>
        \o MkGroup(IRS, GRANT_GROUP, Field(T_BusinessNameLine1Txt, TxtTotalUpper),
                   Field(T_Amt, Amt500))
        \o MkGroup("", GRANT_GROUP, Field(T_BusinessNameLine1Txt, TxtAcme),
                   Field(T_Amt, Amt250))

HugeAmountDoc ==
    <<RootElem>>
        \o MkGroup(IRS, GRANT_GROUP, Field(T_BusinessNameLine1Txt, TxtAcme),
                   Field(T_Amt, AmtHuge))

\* the name inside a RecipientBusinessName wrapper, a group inside a group,
\* text in tails
NestedDoc ==
    <<RootElem,
      Elem(IRS, GRANT_GROUP, 1, <<>>, <<>>),
      Elem(IRS, T_RecipientBusinessName, 2, <<"LF">>, <<>>),
      Elem(IRS, T_BusinessNameLine1Txt, 3, <<>>, <<"x">>),
      Elem(IRS, T_Desc, 3, <<"y">>, <<"z", " ">>),
      Elem(IRS, T_Amt, 2, <<"7">>, <<"t">>),
      Elem(IRS, GRANT_GROUP, 2, <<>>, <<>>),
      Elem(IRS, T_BusinessNameLine1Txt, 3, TxtAcme, <<>>),
      Elem(IRS, T_Amt, 3, Amt250, <<>>)>>

Docs ==
    MainDocs \cup ExtractDocs
        \cup {ExampleDoc, TotalOnlyDoc, TotalUpperDoc, HugeAmountDoc, NestedDoc}

OutPath == "grants.csv"

(***************************************************************************)
(* The program: main calls extract_grants, whose loop takes one group per  *)
(* step.  A finished run may be followed by another run on the same        *)
(* document; prev_run keeps what the run before the current one did.       *)
(***************************************************************************)
\* not x, for x None or a text
Falsy(x) == IF x = None THEN TRUE ELSE x[1] = <<>>

Init ==
    /\ doc \in Docs
    /\ debug = FALSE
    /\ pc = "start"
    /\ grant_nodes = <<>>
    /\ i = 0
    /\ name = None
    /\ amount_raw = None
    /\ amt_val = None
    /\ results = <<>>
    /\ stdout = <<>>
    /\ stderr = <<>>
    /\ exit_code = None
    /\ out_file = None
    /\ prev_run = None

\* what a finished run did
Outcome ==
    [debug |-> debug, rows |-> results, exit_code |-> exit_code,
     csv |-> IF exit_code = Some(0) THEN out_file ELSE None]

\* main: the command line is read
Invoke(d) ==
    /\ pc \in {"start", "exited"}
    /\ debug' = d
    /\ pc' = "extract"
    /\ grant_nodes' = <<>>
    /\ i' = 0
    /\ name' = None
    /\ amount_raw' = None
    /\ amt_val' = None
    /\ results' = <<>>
    /\ stdout' = <<>>
    /\ stderr' = <<>>
    /\ exit_code' = None
    /\ prev_run' = IF pc = "exited" THEN Some(Outcome) ELSE prev_run
    /\ UNCHANGED <<doc, out_file>>

\* extract_grants up to the loop
Locate ==
    /\ pc = "extract"
    /\ grant_nodes' = LocateGroups(doc, debug)
    /\ stdout' = IF debug
                 THEN Append(stdout, [kind |-> "found", n |-> Len(grant_nodes')])
                 ELSE stdout
    /\ results' = <<>>
    /\ i' = 0
    /\ pc' = "loop"
    /\ UNCHANGED <<doc, debug, name, amount_raw, amt_val, stderr, exit_code,
                   out_file, prev_run>>

InLoop == pc = "loop" /\ i < Len(grant_nodes)

Node == grant_nodes[i + 1]

NameOf(node) == first_text_for_tags(doc, node, NAME_TAG_CANDIDATES)

AmountOf(node) == first_text_for_tags(doc, node, AMOUNT_TAG_CANDIDATES)

\* the two flags exchanged
SkipMissingMsg_Swapped(node, nm, am) ==
    [kind |-> "skipping", ln |-> LocalName(doc[node]),
     name_found |-> ~Falsy(am), amount_found |-> ~Falsy(nm)]

SkipMissingMsg(node, nm, am) ==
    [kind |-> "skipping", ln |-> LocalName(doc[node]),
     name_found |-> ~Falsy(nm), amount_found |-> ~Falsy(am)]

UnparseableMsg(nm, am) ==
    [kind |-> "unparseable", amount_raw |-> am[1], name |-> nm[1]]

\* one pass of the loop that ends at the first continue
SkipMissing ==
    /\ InLoop
    /\ name' = NameOf(Node)
    /\ amount_raw' = AmountOf(Node)
    /\ IF Falsy(name') THEN TRUE ELSE Falsy(amount_raw')
    /\ stdout' = IF debug
                 THEN Append(stdout, SkipMissingMsg(Node, name', amount_raw'))
                 ELSE stdout
    /\ i' = i + 1
    /\ UNCHANGED <<doc, debug, pc, grant_nodes, amt_val, results, stderr,
                   exit_code, out_file, prev_run>>

\* one pass of the loop that ends at the second continue
SkipUnparseable ==
    /\ InLoop
    /\ name' = NameOf(Node)
    /\ amount_raw' = AmountOf(Node)
    /\ ~(IF Falsy(name') THEN TRUE ELSE Falsy(amount_raw'))
    /\ amt_val' = clean_amount_to_float(amount_raw')
    /\ amt_val' = None
    /\ stdout' = IF debug
                 THEN Append(stdout, UnparseableMsg(name', amount_raw'))
                 ELSE stdout
    /\ i' = i + 1
    /\ UNCHANGED <<doc, debug, pc, grant_nodes, results, stderr, exit_code,
                   out_file, prev_run>>

\* one pass of the loop that ends at the third continue
SkipTotal ==
    /\ InLoop
    /\ name' = NameOf(Node)
    /\ amount_raw' = AmountOf(Node)
    /\ ~(IF Falsy(name') THEN TRUE ELSE Falsy(amount_raw'))
    /\ amt_val' = clean_amount_to_float(amount_raw')
    /\ amt_val' # None
    /\ IsTotal(name'[1])
    /\ i' = i + 1
    /\ UNCHANGED <<doc, debug, pc, grant_nodes, results, stdout, stderr,
                   exit_code, out_file, prev_run>>

\* one pass of the loop that reaches results.append
AppendRow ==
    /\ InLoop
    /\ name' = NameOf(Node)
    /\ amount_raw' = AmountOf(Node)
    /\ ~(IF Falsy(name') THEN TRUE ELSE Falsy(amount_raw'))
    /\ amt_val' = clean_amount_to_float(amount_raw')
    /\ amt_val' # None
    /\ ~IsTotal(name'[1])
    /\ results' = Append(results, [recipient |-> name'[1], amount |-> amt_val'[1]])
    /\ i' = i + 1
    /\ UNCHANGED <<doc, debug, pc, grant_nodes, stdout, stderr, exit_code,
                   out_file, prev_run>>

Returned == pc = "loop" /\ i = Len(grant_nodes)

\* main without the check for an empty result
MainNoRows_WritesEmpty ==
    /\ Returned
    /\ results = <<>>
    /\ out_file' = Some([header |-> <<"recipient", "amount">>, rows |-> <<>>])
    /\ stdout' = Append(stdout, [kind |-> "saved", n |-> 0, path |-> OutPath])
    /\ exit_code' = Some(0)
    /\ pc' = "exited"
    /\ UNCHANGED <<doc, debug, grant_nodes, i, name, amount_raw, amt_val,
                   results, stderr, prev_run>>

\* main after extract_grants returned no row
MainNoRows ==
    /\ Returned
    /\ results = <<>>
    /\ stderr' = Append(stderr, [kind |-> "no_grants"])
    /\ stdout' = IF debug THEN Append(stdout, [kind |-> "hint"]) ELSE stdout
    /\ exit_code' = Some(1)
    /\ pc' = "exited"
    /\ UNCHANGED <<doc, debug, grant_nodes, i, name, amount_raw, amt_val,
                   results, out_file, prev_run>>

\* pd.DataFrame(rows, columns=["recipient", "amount"]).to_csv(out, index=False)
ToCsv(rows) ==
    [header |-> <<"recipient", "amount">>,
     rows |-> [k \in 1..Len(rows) |-> <<rows[k].recipient, rows[k].amount>>]]

\* main after extract_grants returned rows
MainSave ==
    /\ Returned
    /\ results # <<>>
    /\ out_file' = Some(ToCsv(results))
    /\ stdout' = Append(stdout, [kind |-> "saved", n |-> Len(results),
                                 path |-> OutPath])
    /\ exit_code' = Some(0)
    /\ pc' = "exited"
    /\ UNCHANGED <<doc, debug, grant_nodes, i, name, amount_raw, amt_val,
                   results, stderr, prev_run>>

Next ==
    \/ \E d \in BOOLEAN : Invoke(d)
    \/ Locate
    \/ SkipMissing
    \/ SkipUnparseable
    \/ SkipTotal
    \/ AppendRow
    \/ MainNoRows
    \/ MainSave

Spec == Init /\ [][Next]_vars

(***************************************************************************)
(* clean_amount_to_float on its own: any argument, None included.          *)
(***************************************************************************)
Alphabet == {"0", "1", ".", "-", "(", ")", ",", "$", " ", "a", "NBSP"}

AmountInputs ==
    {None}
        \cup {Some(s) : s \in UNION {[1..n -> Alphabet] : n \in 0..MaxLen}}
        \cup {Some(Amt500), Some(Amt250), Some(AmtNA), Some(AmtHuge),
              Some(<<"(", "1", ",", "2", "3", "4", ".", "5", "6", ")">>),
              Some(<<"$", "1", ",", "0", "0", "0">>),
              Some(<<"$", "1", ",", "0", "0", "0", ".", "0", "0">>),
              Some(<<"(", "5", "0", "0", ")">>), Some(<<"a", "b", "c">>)}

InitAmount ==
    /\ amount_raw \in AmountInputs
    /\ pc = "call"
    /\ amt_val = None
    /\ doc = <<>>
    /\ debug = FALSE
    /\ grant_nodes = <<>>
    /\ i = 0
    /\ name = None
    /\ results = <<>>
    /\ stdout = <<>>
    /\ stderr = <<>>
    /\ exit_code = None
    /\ out_file = None
    /\ prev_run = None

CleanAmountCall ==
    /\ pc = "call"
    /\ amt_val' = clean_amount_to_float(amount_raw)
    /\ pc' = "returned"
    /\ UNCHANGED <<doc, debug, grant_nodes, i, name, amount_raw, results,
                   stdout, stderr, exit_code, out_file, prev_run>>

NextAmount == CleanAmountCall

SpecAmount == InitAmount /\ [][NextAmount]_vars

(***************************************************************************)
(* Properties.                                                             *)
(***************************************************************************)
Processed == pc \in {"loop", "exited"}

\* element k lies strictly inside element n
IsDescendant(d, k, n) ==
    k > n /\ \A j \in (n + 1)..k : d[j].depth > d[n].depth

\* the row conditions of a located group
RowConds(node) ==
    IF NameOf(node) = None \/ AmountOf(node) = None THEN FALSE
    ELSE IF clean_amount_to_float(AmountOf(node)) = None THEN FALSE
    ELSE ~Contains(ToLower(NameOf(node)[1]), TOTAL)

RowFor(node) ==
    [recipient |-> NameOf(node)[1],
     amount |-> clean_amount_to_float(AmountOf(node))[1]]

\* C1: each pass of the loop over a grant group appends a row if and only if
\* the recipient extraction is not absent, the amount extraction is not
\* absent, the normalized amount is not absent and the lower-cased recipient
\* does not contain "total"; the row carries the extracted recipient and the
\* normalized amount.
C1_RowEmittedIff ==
    [][InLoop =>
          results' = IF RowConds(Node) THEN Append(results, RowFor(Node))
                     ELSE results]_vars

C1_Witness == pc = "loop" /\ i = 2 /\ Len(results) = 1 /\ RowConds(grant_nodes[2])

HasText(d, k) == Strip(IterText(d, k)) # <<>>

TagHasText(d, node, tag) ==
    \E k \in 1..Len(d) :
        IsDescendant(d, k, node) /\ LocalName(d[k]) = tag /\ HasText(d, k)

ExpectedFirstText(d, node, tags) ==
    IF ~\E t \in 1..Len(tags) : TagHasText(d, node, tags[t]) THEN None
    ELSE LET t == CHOOSE x \in 1..Len(tags) :
                    /\ TagHasText(d, node, tags[x])
                    /\ \A y \in 1..(x - 1) : ~TagHasText(d, node, tags[y])
             k == CHOOSE x \in 1..Len(d) :
                    /\ IsDescendant(d, x, node) /\ LocalName(d[x]) = tags[t]
                    /\ HasText(d, x)
                    /\ \A y \in 1..(x - 1) :
                          ~(IsDescendant(d, y, node) /\ LocalName(d[y]) = tags[t]
                              /\ HasText(d, y))
         IN  Some(Strip(IterText(d, k)))

\* C2: first_text_for_tags returns the trimmed concatenated text of the first
\* element (in document order) with non-empty trimmed text of the earliest
\* candidate tag (in list order) that has such an element among the group's
\* descendants, whatever the positions of elements of later tags, and
\* returns absent only when no candidate tag has such an element.
C2_FirstTagWins ==
    (Processed /\ i > 0) =>
        /\ name = ExpectedFirstText(doc, grant_nodes[i], NAME_TAG_CANDIDATES)
        /\ amount_raw = ExpectedFirstText(doc, grant_nodes[i], AMOUNT_TAG_CANDIDATES)

C2_Witness ==
    /\ Processed /\ i > 0
    /\ \E k1, k2 \in 1..Len(doc) :
        /\ k1 < k2
        /\ IsDescendant(doc, k1, grant_nodes[i])
        /\ IsDescendant(doc, k2, grant_nodes[i])
        /\ LocalName(doc[k1]) = T_BusinessName /\ HasText(doc, k1)
        /\ LocalName(doc[k2]) = T_BusinessNameLine1Txt /\ HasText(doc, k2)
        /\ Strip(IterText(doc, k1)) # Strip(IterText(doc, k2))
        /\ name = Some(Strip(IterText(doc, k2)))

\* noise: whitespace, non-breaking spaces, commas, currency symbols, letters
Noise(c) == c \notin (Digits \cup {".", "-", "(", ")"})

Core(s) == SelectSeq(s, LAMBDA c : ~Noise(c))

Unsigned(c) ==
    IF c # <<>> /\ Head(c) = "-" THEN Tail(c)
    ELSE IF Len(c) >= 2 /\ Head(c) = "(" /\ c[Len(c)] = ")"
         THEN SubSeq(c, 2, Len(c) - 1)
    ELSE c

WellFormedAmount(s) == IsNumeral(Unsigned(Core(s)))

ExpectedValue(s) ==
    LET u == Unsigned(Core(s))
        ipart == IF Count(u, ".") = 1
                 THEN SubSeq(u, 1, (CHOOSE k \in 1..Len(u) : u[k] = ".") - 1)
                 ELSE u
        fpart == SubSeq(u, Len(ipart) + 2, Len(u))
    IN  Double(Head(Core(s)) \in {"-", "("}, ipart, fpart)

Finite(neg, ip, fp) == [kind |-> "finite", neg |-> neg, ip |-> ip, fp |-> fp]

Remaining(s) ==
    LET kept == SelectSeq(s, LAMBDA c : c \in Digits \cup {".", "-", "("})
    IN  [k \in 1..Len(kept) |-> IF kept[k] = "(" THEN "-" ELSE kept[k]]

Malformed(r) ==
    \/ Count(r, "-") > 1
    \/ Count(r, ".") > 1
    \/ \E k \in 2..Len(r) : r[k] = "-"
    \/ \A k \in 1..Len(r) : r[k] \notin Digits

\* C4: clean_amount_to_float returns absent when its argument is absent, when
\* nothing remains of it once every character other than a digit, a period
\* or a minus sign is removed, and when what remains is a malformed numeral
\* (more than one minus sign, more than one period, a minus sign that is not
\* leading, no digit); in every other case it returns a number.
C4_AbsentOrNumber ==
    pc = "returned" =>
        /\ amt_val = None <=>
              (IF amount_raw = None THEN TRUE
               ELSE Remaining(amount_raw[1]) = <<>>
                        \/ Malformed(Remaining(amount_raw[1])))
        /\ amt_val # None => amt_val[1].kind \in {"finite", "inf"}

C4_Witness ==
    /\ pc = "returned"
    /\ amount_raw = Some(<<"1", "-", "1">>)
    /\ amt_val = None

HasMsg(out, kind) == \E k \in 1..Len(out) : out[k].kind = kind

\* C5: when extract_grants has returned, main either (no row) prints a
\* message on standard error, exits non-zero and writes no CSV file, or (some
\* row) writes the CSV with one row per extracted row, prints the summary
\* with the row count and the output path and exits zero; the run fails only
\* if no located group yields a row.
C5_TwoOutcomes ==
    [][Returned =>
          /\ pc' = "exited"
          /\ (\A k \in 1..Len(grant_nodes) : ~RowConds(grant_nodes[k]))
                <=> exit_code' = Some(1)
          /\ IF results = <<>>
             THEN /\ stderr' = Append(stderr, [kind |-> "no_grants"])
                  /\ exit_code' = Some(1)
                  /\ out_file' = out_file
                  /\ ~HasMsg(stdout', "saved")
             ELSE /\ out_file' # None
                  /\ out_file'[1].header = <<"recipient", "amount">>
                  /\ Len(out_file'[1].rows) = Len(results)
                  /\ \A k \in 1..Len(results) :
                        out_file'[1].rows[k]
                            = <<results[k].recipient, results[k].amount>>
                  /\ stdout' = Append(stdout, [kind |-> "saved",
                                               n |-> Len(results),
                                               path |-> OutPath])
                  /\ stderr' = stderr
                  /\ exit_code' = Some(0)]_vars

C5_Witness ==
    /\ pc = "exited" /\ exit_code = Some(0)
    /\ Len(results) < Len(grant_nodes)
    /\ out_file # None /\ Len(out_file[1].rows) = Len(results)

\* C6: every row of the result has a non-empty recipient without leading or
\* trailing whitespace and a finite amount.
C6_RowsWellFormed ==
    \A k \in 1..Len(results) :
        /\ results[k].recipient # <<>>
        /\ Strip(results[k].recipient) = results[k].recipient
        /\ results[k].amount.kind = "finite"

\* a group on its own: the group element and what lies inside it
Subtree(d, n) ==
    [k \in 1..(1 + Cardinality({x \in 1..Len(d) : IsDescendant(d, x, n)})) |->
        [d[n + k - 1] EXCEPT !.depth = @ - d[n].depth]]

GroupRows(g) ==
    LET nm == first_text_for_tags(g, 1, NAME_TAG_CANDIDATES)
        am == first_text_for_tags(g, 1, AMOUNT_TAG_CANDIDATES)
    IN  IF nm = None \/ am = None THEN <<>>
        ELSE IF clean_amount_to_float(am) = None THEN <<>>
        ELSE IF Contains(ToLower(nm[1]), TOTAL) THEN <<>>
        ELSE <<[recipient |-> nm[1], amount |-> clean_amount_to_float(am)[1]]>>

\* C7: the result is the concatenation, in document order of the groups, of
\* what each group yields on its own (no row or one row, decided by the
\* group's subtree alone); two valid groups with amounts "$500.00" and
\* "(250)" and a group without a name yield the rows 500.0 and -250.0.
C7_OrderedConcatenation ==
    Processed =>
        /\ \A k \in 1..(Len(grant_nodes) - 1) : grant_nodes[k] < grant_nodes[k + 1]
        /\ results = Flatten([k \in 1..i |-> GroupRows(Subtree(doc, grant_nodes[k]))])
        /\ (doc = ExampleDoc /\ pc = "exited") =>
              /\ Len(results) = 2
              /\ results[1].amount = Finite(FALSE, <<"5", "0", "0">>, <<>>)
              /\ results[2].amount = Finite(TRUE, <<"2", "5", "0">>, <<>>)

C7_Witness ==
    /\ doc = ExampleDoc /\ pc = "exited" /\ Len(results) = 2
    /\ results[2].amount = Finite(TRUE, <<"2", "5", "0">>, <<>>)

IsOrderedListOf(seq, S) ==
    /\ Len(seq) = Cardinality(S)
    /\ \A k \in 1..Len(seq) : seq[k] \in S
    /\ \A k \in 1..(Len(seq) - 1) : seq[k] < seq[k + 1]

ExactSet == {k \in 1..Len(doc) : doc[k].name = GRANT_GROUP}

GrantLikeSet == {k \in 1..Len(doc) : Contains(ToLower(doc[k].name), GRANT)}

\* C8: the located groups are all the elements, at any depth and in any
\* namespace, whose local name is GrantOrContributionPdDurYrGrp, in document
\* order, and no other; the elements whose lower-cased local name contains
\* "grant" are taken instead only when there is none and diagnostics are on.
C8_Locator ==
    Processed =>
        IF ExactSet = {} /\ debug
        THEN IsOrderedListOf(grant_nodes, GrantLikeSet)
        ELSE IsOrderedListOf(grant_nodes, ExactSet)

C8_Witness ==
    /\ Processed /\ Len(grant_nodes) = 2
    /\ doc[grant_nodes[1]].depth = 1 /\ doc[grant_nodes[2]].depth = 2
    /\ doc[grant_nodes[2]].name = GRANT_GROUP

Skipped(node) == ~RowConds(node)

DiagKinds == {"found", "skipping", "unparseable"}

PerGroup(out) == SelectSeq(out, LAMBDA m : m.kind \in {"skipping", "unparseable"})

\* C9 as stated: with diagnostics on, the count of located groups and one
\* message per skipped group (every located group that yields no row) are
\* on standard error; with diagnostics off there is no per-group message.
C9_Original ==
    Processed =>
        IF debug
        THEN /\ \E k \in 1..Len(stderr) :
                    stderr[k] = [kind |-> "found", n |-> Len(grant_nodes)]
             /\ Len(PerGroup(stderr))
                    = Cardinality({k \in 1..i : Skipped(grant_nodes[k])})
        ELSE PerGroup(stderr) = <<>> /\ PerGroup(stdout) = <<>>

ExpectedMsgs(node) ==
    IF NameOf(node) = None \/ AmountOf(node) = None
    THEN <<[kind |-> "skipping", ln |-> doc[node].name,
            name_found |-> NameOf(node) # None,
            amount_found |-> AmountOf(node) # None]>>
    ELSE IF clean_amount_to_float(AmountOf(node)) = None
    THEN <<[kind |-> "unparseable", amount_raw |-> AmountOf(node)[1],
            name |-> NameOf(node)[1]]>>
    ELSE <<>>

\* C9 amended: with diagnostics on, standard output carries the count of
\* located groups and then, in group order, one message for each group
\* skipped for a missing field (saying which of the two was found) or for an
\* amount that does not parse (giving the amount text and the name); a group
\* skipped for "total" gets no message; nothing of this goes to standard
\* error; with diagnostics off none of these messages is printed.
C9_Amended ==
    Processed =>
        /\ \A k \in 1..Len(stderr) : stderr[k].kind \notin DiagKinds
        /\ IF debug
           THEN /\ stdout[1] = [kind |-> "found", n |-> Len(grant_nodes)]
                /\ PerGroup(stdout)
                      = Flatten([k \in 1..i |-> ExpectedMsgs(grant_nodes[k])])
           ELSE \A k \in 1..Len(stdout) : stdout[k].kind \notin DiagKinds

C9_Witness ==
    /\ debug /\ pc = "exited" /\ i = 2
    /\ Len(PerGroup(stdout)) = 1
    /\ PerGroup(stdout)[1].kind = "skipping"
    /\ ~PerGroup(stdout)[1].name_found /\ PerGroup(stdout)[1].amount_found
    /\ NameOf(grant_nodes[2]) # None
    /\ IsTotal(NameOf(grant_nodes[2])[1])

SameAsPrevRun ==
    /\ prev_run[1].rows = results
    /\ prev_run[1].exit_code = exit_code
    /\ prev_run[1].csv = Outcome.csv

\* C10 as stated: two runs on the same document that differ at most in the
\* diagnostic switch return the same rows and end with the same exit status
\* and the same CSV content.
C10_Original == (pc = "exited" /\ prev_run # None) => SameAsPrevRun

\* C10 amended: on a document with at least one element of local name
\* GrantOrContributionPdDurYrGrp, two runs that differ at most in the
\* diagnostic switch return the same rows and end with the same exit status
\* and the same CSV content; on a document without one, the run with
\* diagnostics off returns no row and exits non-zero, whatever the run with
\* diagnostics on returns from the grant-like elements.
C10_Amended ==
    pc = "exited" =>
        /\ (prev_run # None /\ ExactSet # {}) => SameAsPrevRun
        /\ (ExactSet = {} /\ ~debug) => (results = <<>> /\ exit_code = Some(1))

C10_Witness ==
    /\ pc = "exited" /\ prev_run # None /\ ExactSet # {}
    /\ prev_run[1].debug # debug
    /\ GrantLikeSet # ExactSet
    /\ results # <<>> /\ SameAsPrevRun

====
